---- MODULE Spec2Model ----
(***************************************************************************)
(* Model of webrtc/sendrecv/gst/webrtc-sendrecv.c: the signalling session  *)
(* state machine, the offer/answer negotiation against webrtcbin and the   *)
(* shutdown routine.                                                       *)
(*                                                                         *)
(* Every handler of the program is one atomic action.  The body of a       *)
(* handler is an operator from the record of the program's globals to the  *)
(* record after the handler, so that a call made in the middle of a        *)
(* handler (cleanup_and_quit_loop, send_sdp_to_peer, ...) is part of it.   *)
(*                                                                         *)
(* The collaborators are modelled by their interface:                      *)
(*  - libsoup: a websocket with states open/closing/closed; a send on a    *)
(*    connection that is NULL or not open transmits nothing;               *)
(*  - webrtcbin: requests (create-offer, create-answer,                    *)
(*    set-local-description, set-remote-description) are queued and run,   *)
(*    in order per instance, on the element's own thread, which also       *)
(*    delivers the promise replies and the signals on-negotiation-needed   *)
(*    and on-ice-candidate (on-negotiation-needed in any signalling state, *)
(*    on-ice-candidate once a local description was applied); the          *)
(*    signalling state follows the offer/answer                            *)
(*    rules; a GstPromise calls its change function when it leaves the     *)
(*    pending state, by a reply or by gst_promise_interrupt.               *)
(***************************************************************************)
EXTENDS Integers, Sequences, FiniteSets, TLC

\* enum AppState
APP_STATE_UNKNOWN == 0
APP_STATE_ERROR == 1
SERVER_CONNECTING == 1000
SERVER_CONNECTION_ERROR == 1001
SERVER_CONNECTED == 1002
SERVER_REGISTERING == 2000
SERVER_REGISTRATION_ERROR == 2001
SERVER_REGISTERED == 2002
SERVER_CLOSED == 2003
PEER_CONNECTING == 3000
PEER_CONNECTION_ERROR == 3001
PEER_CONNECTED == 3002
PEER_CALL_NEGOTIATING == 4000
PEER_CALL_STARTED == 4001
PEER_CALL_STOPPING == 4002
PEER_CALL_STOPPED == 4003
PEER_CALL_ERROR == 4004

AppState ==
  { APP_STATE_UNKNOWN, APP_STATE_ERROR, SERVER_CONNECTING,
    SERVER_CONNECTION_ERROR, SERVER_CONNECTED, SERVER_REGISTERING,
    SERVER_REGISTRATION_ERROR, SERVER_REGISTERED, SERVER_CLOSED,
    PEER_CONNECTING, PEER_CONNECTION_ERROR, PEER_CONNECTED,
    PEER_CALL_NEGOTIATING, PEER_CALL_STARTED, PEER_CALL_STOPPING,
    PEER_CALL_STOPPED, PEER_CALL_ERROR }

\* The *Error values of enum AppState.
ErrorStates ==
  { APP_STATE_ERROR, SERVER_CONNECTION_ERROR, SERVER_REGISTRATION_ERROR,
    PEER_CONNECTION_ERROR, PEER_CALL_ERROR }

\* Bounds of the model: server messages delivered, on-negotiation-needed and
\* on-ice-candidate signals emitted, pipelines created.
MaxMsgs == 3
MaxNegotiationNeeded == 2
MaxIce == 1
MaxPipelines == 2
MaxChannels == 2
MaxOpens == 2
MaxCmds == 3
MaxPings == 2

NULL == "NULL"
peer_id == NULL
our_id == "gst-peer"

\* GstWebRTCSignalingState, the values the offer/answer exchange reaches.
SigStates == { "stable", "have-local-offer", "have-remote-offer" }

\* The texts a server message is told apart by in on_server_message.
Msgs ==
  { "HELLO", "SESSION_OK", "OFFER_REQUEST", "ERROR", "sdp-offer",
    "sdp-answer", "sdp-notype", "sdp-notext", "ice", "junk" }

VARIABLES
  app_state,      \* static enum AppState app_state
  ws_conn,        \* ws_conn # NULL
  ws_state,       \* soup_websocket_connection_get_state of the connection
  loop,           \* loop # NULL
  making_offer,   \* static gboolean making_offer
  webrtc1,        \* 0 for NULL, else the number of the webrtcbin instance
  sig,            \* signaling-state of each webrtcbin instance
  gathering,      \* instances that had a local description applied
  pcq,            \* requests queued in the webrtcbin instances
  log,            \* the calls of soup_websocket_connection_send_text
  ice_added,      \* add-ice-candidate requests made of webrtcbin
  close_calls,    \* calls of soup_websocket_connection_close
  quit_calls,     \* calls of g_main_loop_quit
  aborted,        \* a g_assert failed or a NULL description was read
  exited,         \* main() returned
  n_created,      \* webrtcbin instances created by start_pipeline
  n_msgs,         \* server messages delivered
  n_nn,           \* on-negotiation-needed signals emitted
  n_ice,          \* on-ice-candidate signals emitted
  video_bin,      \* static GstElement *video_bin: 0 for NULL, else the bin
  video_sink,     \* static GstPad *video_sink: 0 for NULL, else the pad
  audio_bin,      \* static GstElement *audio_bin
  audio_sink,     \* static GstPad *audio_sink
  pipe_bins,      \* the media bins that are children of pipe1
  req_sinks,      \* the sink pads requested of webrtc1 and not released
  n_bins,         \* media bins created
  idle,           \* the sources added by g_idle_add, oldest first
  ran,            \* the idle sources that were dispatched, oldest first
  n_dc,           \* data channels handed to on_data_channel
  opens,          \* on-open signals delivered for each channel
  timers,         \* g_timeout_add sources of data_channel_send_hello, per channel
  done,           \* static int done of data_channel_on_open
  ping_count,     \* static unsigned int ping_count
  pings,          \* the "PING <n>" strings sent, with the channel
  n_cmds,         \* data-channel text messages delivered
  wire,           \* a message on its way through the JSON wire format
  ev              \* the handler that ran last, and what it found on entry

vars ==
  << app_state, ws_conn, ws_state, loop, making_offer, webrtc1, sig,
     gathering, pcq, log, ice_added, close_calls, quit_calls, aborted,
     exited, n_created, n_msgs, n_nn, n_ice, video_bin, video_sink,
     audio_bin, audio_sink, pipe_bins, req_sinks, n_bins, idle, ran, n_dc,
     opens, timers, done, ping_count, pings, n_cmds, wire, ev >>

\* The globals as one record: the argument and the result of every handler.
Cur ==
  [ app_state |-> app_state, ws_conn |-> ws_conn, ws_state |-> ws_state,
    loop |-> loop, making_offer |-> making_offer, webrtc1 |-> webrtc1,
    sig |-> sig, gathering |-> gathering, pcq |-> pcq, log |-> log,
    ice_added |-> ice_added,
    close_calls |-> close_calls, quit_calls |-> quit_calls,
    aborted |-> aborted, n_created |-> n_created, cleanups |-> 0,
    calls |-> << >>,
    video_bin |-> video_bin, video_sink |-> video_sink,
    audio_bin |-> audio_bin, audio_sink |-> audio_sink,
    pipe_bins |-> pipe_bins, req_sinks |-> req_sinks, n_bins |-> n_bins,
    idle |-> idle, ran |-> ran, n_dc |-> n_dc, opens |-> opens,
    timers |-> timers, done |-> done, ping_count |-> ping_count,
    pings |-> pings ]

\* What a handler found on entry.
Entry(op, arg) ==
  [ op |-> op, arg |-> arg, pre_app |-> app_state,
    pre_sig |-> IF webrtc1 = 0 THEN "none" ELSE sig[webrtc1],
    pre_len |-> Len(log), pre_q |-> Len(pcq), pre_conn |-> ws_conn ]

Set(r, op, arg) ==
  /\ app_state' = r.app_state
  /\ ws_conn' = r.ws_conn
  /\ ws_state' = r.ws_state
  /\ loop' = r.loop
  /\ making_offer' = r.making_offer
  /\ webrtc1' = r.webrtc1
  /\ sig' = r.sig
  /\ gathering' = r.gathering
  /\ pcq' = r.pcq
  /\ log' = r.log
  /\ ice_added' = r.ice_added
  /\ close_calls' = r.close_calls
  /\ quit_calls' = r.quit_calls
  /\ aborted' = r.aborted
  /\ n_created' = r.n_created
  /\ video_bin' = r.video_bin
  /\ video_sink' = r.video_sink
  /\ audio_bin' = r.audio_bin
  /\ audio_sink' = r.audio_sink
  /\ pipe_bins' = r.pipe_bins
  /\ req_sinks' = r.req_sinks
  /\ n_bins' = r.n_bins
  /\ idle' = r.idle
  /\ ran' = r.ran
  /\ n_dc' = r.n_dc
  /\ opens' = r.opens
  /\ timers' = r.timers
  /\ done' = r.done
  /\ ping_count' = r.ping_count
  /\ pings' = r.pings
  /\ ev' = Entry(op, arg) @@ [ cleanups |-> r.cleanups, calls |-> r.calls ]

\* soup_websocket_connection_send_text (ws_conn, text): the call, with the
\* application state and the connection it was made on.  lpend: a
\* set-local-description request for a description of this kind is still
\* queued in webrtcbin when the text is sent.
send_text(s, kind) ==
  [ s EXCEPT !.log = Append(@,
      [ kind |-> kind, st |-> s.app_state,
        conn |-> IF s.ws_conn THEN s.ws_state ELSE "null",
        lpend |-> \E i \in 1..Len(s.pcq) :
                     /\ s.pcq[i].t = "set-local-description"
                     /\ s.pcq[i].kind = kind ]) ]

\* g_signal_emit_by_name (webrtc1, request, ...): queued in the instance
\* webrtc1 names; on a NULL instance GObject refuses the call.
emit(s, t, kind) ==
  IF s.webrtc1 = 0
    THEN s
    ELSE [ s EXCEPT !.pcq = Append(@, [ t |-> t, kind |-> kind,
                                         w |-> s.webrtc1 ]) ]

\* g_object_get (webrtc1, "signaling-state", &signalling_state, NULL): with
\* webrtc1 NULL the local is left uninitialised, ub is what it then holds.
signaling_state(s, ub) ==
  IF s.webrtc1 = 0 THEN ub ELSE s.sig[s.webrtc1]

\* Mutant: cleanup_and_quit_loop closing the connection whatever its state.
cleanup_and_quit_loop_recloses(s, state) ==
  LET s1 == IF state > 0 THEN [ s EXCEPT !.app_state = state ] ELSE s
      s2 == IF s1.ws_conn
              THEN [ s1 EXCEPT !.ws_state = "closing", !.close_calls = @ + 1 ]
              ELSE s1
      s3 == IF s2.loop
              THEN [ s2 EXCEPT !.loop = FALSE, !.quit_calls = @ + 1 ]
              ELSE s2
  IN  [ s3 EXCEPT !.cleanups = @ + 1 ]

cleanup_and_quit_loop(s, state) ==
  LET s1 == IF state > 0 THEN [ s EXCEPT !.app_state = state ] ELSE s
      s2 == IF s1.ws_conn
              THEN IF s1.ws_state = "open"
                     THEN [ s1 EXCEPT !.ws_state = "closing",
                                      !.close_calls = @ + 1 ]
                     ELSE [ s1 EXCEPT !.ws_conn = FALSE ]
              ELSE s1
      s3 == IF s2.loop
              THEN [ s2 EXCEPT !.loop = FALSE, !.quit_calls = @ + 1 ]
              ELSE s2
  IN  [ s3 EXCEPT !.cleanups = @ + 1 ]

\* Mutant: the state check of send_ice_candidate_message left out.
send_ice_candidate_message_unguarded(s) == send_text(s, "ice")

send_ice_candidate_message(s) ==
  IF s.app_state < PEER_CALL_NEGOTIATING
    THEN cleanup_and_quit_loop(s, APP_STATE_ERROR)
    ELSE send_text(s, "ice")

\* desc is "offer", "answer" or NULL; desc->sdp of a NULL description is a
\* read through a null pointer.
send_sdp_to_peer(s, desc) ==
  IF s.app_state < PEER_CALL_NEGOTIATING
    THEN cleanup_and_quit_loop(s, APP_STATE_ERROR)
    ELSE IF desc = NULL
           THEN [ s EXCEPT !.aborted = TRUE ]
           ELSE send_text(s, desc)

\* Mutant: on_offer_created without the check of the signalling state.
on_offer_created_unchecked(s, ub) ==
  IF s.app_state # PEER_CALL_NEGOTIATING
    THEN [ s EXCEPT !.aborted = TRUE ]
    ELSE LET s1 == emit(s, "set-local-description", "offer")
             s2 == send_sdp_to_peer(s1, "offer")
         IN  [ s2 EXCEPT !.making_offer = FALSE ]

on_offer_created(s, ub) ==
  IF s.app_state # PEER_CALL_NEGOTIATING
    THEN [ s EXCEPT !.aborted = TRUE ]
    ELSE IF signaling_state(s, ub) # "stable"
           THEN [ s EXCEPT !.making_offer = FALSE ]
           ELSE LET s1 == emit(s, "set-local-description", "offer")
                    s2 == send_sdp_to_peer(s1, "offer")
                IN  [ s2 EXCEPT !.making_offer = FALSE ]

create_offer(s) ==
  emit([ s EXCEPT !.app_state = PEER_CALL_NEGOTIATING,
                  !.making_offer = TRUE ],
       "create-offer", "none")

on_negotiation_needed(s) == create_offer(s)

on_local_description_set(s, answer) == send_sdp_to_peer(s, answer)

\* answer is "answer", or NULL when the reply of create-answer holds none.
\* The promise handed to set-local-description is interrupted while it is
\* pending, which calls its change function on_local_description_set.
on_answer_created(s, answer) ==
  IF s.app_state # PEER_CALL_NEGOTIATING
    THEN [ s EXCEPT !.aborted = TRUE ]
    ELSE IF answer = NULL
           THEN on_local_description_set(s, answer)
           ELSE on_local_description_set(
                  emit(s, "set-local-description", answer), answer)

create_answer(s) == emit(s, "create-answer", "none")

on_offer_set(s) == create_answer(s)

\* Mutant: on_offer_received without the check of the signalling state.
on_offer_received_unchecked(s, ub) ==
  emit(s, "set-remote-description", "offer")

on_offer_received(s, ub) ==
  IF signaling_state(s, ub) # "stable"
    THEN s
    ELSE emit(s, "set-remote-description", "offer")

\* ok: gst_element_set_state (pipe1, GST_STATE_PLAYING) did not fail.
start_pipeline(s, ok) ==
  IF ok
    THEN [ s EXCEPT !.n_created = @ + 1, !.webrtc1 = s.n_created + 1 ]
    ELSE [ s EXCEPT !.webrtc1 = 0 ]

\* setup_call () returns TRUE; peer is what peer_id holds.
setup_call_returns(s, peer) == s.ws_state = "open" /\ peer # NULL

\* setup_call () with peer for peer_id.
setup_call_peer(s, peer) ==
  IF setup_call_returns(s, peer)
    THEN send_text([ s EXCEPT !.app_state = PEER_CONNECTING ], "SESSION")
    ELSE s

setup_call_ok(s) == setup_call_returns(s, peer_id)

setup_call(s) == setup_call_peer(s, peer_id)

register_with_server(s) ==
  IF s.ws_state # "open"
    THEN s
    ELSE send_text([ s EXCEPT !.app_state = SERVER_REGISTERING ], "HELLO")

on_server_closed(s) ==
  cleanup_and_quit_loop([ s EXCEPT !.app_state = SERVER_CLOSED ], 0)

\* Mutant: the switch without the fall-through of PEER_CONNECTED.
ErrorState_no_fallthrough(a) ==
  CASE a = SERVER_CONNECTING -> SERVER_CONNECTION_ERROR
    [] a = SERVER_REGISTERING -> SERVER_REGISTRATION_ERROR
    [] a = PEER_CONNECTING -> PEER_CONNECTION_ERROR
    [] a = PEER_CALL_NEGOTIATING -> PEER_CALL_ERROR
    [] OTHER -> APP_STATE_ERROR

\* The switch of the ERROR branch of on_server_message.
ErrorState(a) ==
  CASE a = SERVER_CONNECTING -> SERVER_CONNECTION_ERROR
    [] a = SERVER_REGISTERING -> SERVER_REGISTRATION_ERROR
    [] a = PEER_CONNECTING -> PEER_CONNECTION_ERROR
    [] a = PEER_CONNECTED -> PEER_CALL_ERROR
    [] a = PEER_CALL_NEGOTIATING -> PEER_CALL_ERROR
    [] OTHER -> APP_STATE_ERROR

\* Mutant: HELLO accepted in any state.
on_hello_unguarded(s) ==
  LET s1 == [ s EXCEPT !.app_state = SERVER_REGISTERED ]
  IN  IF our_id = NULL
        THEN IF setup_call_ok(s1)
               THEN setup_call(s1)
               ELSE cleanup_and_quit_loop(s1, PEER_CALL_ERROR)
        ELSE s1

\* Mutant: the call set up whether or not our_id is set.
hello_accepted_calls(s, our, peer) ==
  LET s1 == [ s EXCEPT !.app_state = SERVER_REGISTERED ]
  IN  IF setup_call_returns(s1, peer)
        THEN setup_call_peer(s1, peer)
        ELSE cleanup_and_quit_loop(s1, PEER_CALL_ERROR)

\* The "HELLO" branch once the state check passed, with our for our_id and
\* peer for peer_id.
hello_accepted(s, our, peer) ==
  LET s1 == [ s EXCEPT !.app_state = SERVER_REGISTERED ]
  IN  IF our = NULL
        THEN IF setup_call_returns(s1, peer)
               THEN setup_call_peer(s1, peer)
               ELSE cleanup_and_quit_loop(s1, PEER_CALL_ERROR)
        ELSE s1

\* The "HELLO" branch.
on_hello(s) ==
  IF s.app_state # SERVER_REGISTERING
    THEN cleanup_and_quit_loop(s, APP_STATE_ERROR)
    ELSE hello_accepted(s, our_id, peer_id)

\* Mutant: SESSION_OK accepted in any state.
on_session_ok_unguarded(s, ok) ==
  LET s1 == start_pipeline([ s EXCEPT !.app_state = PEER_CONNECTED ], ok)
  IN  IF ok THEN s1 ELSE cleanup_and_quit_loop(s1, PEER_CALL_ERROR)

\* The "SESSION_OK" branch.
on_session_ok(s, ok) ==
  IF s.app_state # PEER_CONNECTING
    THEN cleanup_and_quit_loop(s, PEER_CONNECTION_ERROR)
    ELSE LET s1 == start_pipeline([ s EXCEPT !.app_state = PEER_CONNECTED ],
                                  ok)
         IN  IF ok THEN s1 ELSE cleanup_and_quit_loop(s1, PEER_CALL_ERROR)

\* The "OFFER_REQUEST" branch.
on_offer_request(s, ok) ==
  LET s1 == start_pipeline(s, ok)
  IN  IF ok THEN s1 ELSE cleanup_and_quit_loop(s1, PEER_CALL_ERROR)

\* The branch of a text with the prefix ERROR.
on_error(s) ==
  cleanup_and_quit_loop([ s EXCEPT !.app_state = ErrorState(s.app_state) ], 0)

\* Mutant: the "sdp" branch leaving app_state alone after an answer.
on_sdp_not_started(s, type, ub) ==
  LET s1 == [ s EXCEPT !.app_state = PEER_CALL_NEGOTIATING ]
  IN  IF type = NULL
        THEN cleanup_and_quit_loop(s1, PEER_CALL_ERROR)
        ELSE IF type = "answer"
               THEN emit(s1, "set-remote-description", "answer")
               ELSE on_offer_received(s1, ub)

\* The "sdp" branch; type is "offer", "answer" or NULL (no member "type").
on_sdp(s, type, ub) ==
  LET s1 == [ s EXCEPT !.app_state = PEER_CALL_NEGOTIATING ]
  IN  IF type = NULL
        THEN cleanup_and_quit_loop(s1, PEER_CALL_ERROR)
        ELSE IF type = "answer"
               THEN [ emit(s1, "set-remote-description", "answer")
                        EXCEPT !.app_state = PEER_CALL_STARTED ]
               ELSE on_offer_received(s1, ub)

\* The "sdp" branch for an object with a member "type" and no member "sdp":
\* json_object_get_string_member gives NULL and strlen (text) reads through
\* it.
on_sdp_notext(s) ==
  [ s EXCEPT !.app_state = PEER_CALL_NEGOTIATING, !.aborted = TRUE ]

\* The "ice" branch: add-ice-candidate, which a NULL instance refuses.
on_ice(s) ==
  IF s.webrtc1 = 0 THEN s ELSE [ s EXCEPT !.ice_added = @ + 1 ]

on_server_message(s, text, ok, ub) ==
  CASE text = "HELLO" -> on_hello(s)
    [] text = "SESSION_OK" -> on_session_ok(s, ok)
    [] text = "OFFER_REQUEST" -> on_offer_request(s, ok)
    [] text = "ERROR" -> on_error(s)
    [] text = "sdp-offer" -> on_sdp(s, "offer", ub)
    [] text = "sdp-answer" -> on_sdp(s, "answer", ub)
    [] text = "sdp-notype" -> on_sdp(s, NULL, ub)
    [] text = "sdp-notext" -> on_sdp_notext(s)
    [] text = "ice" -> on_ice(s)
    [] OTHER -> s

\* err: soup_session_websocket_connect_finish set the error.
on_server_connected(s, err) ==
  IF err
    THEN cleanup_and_quit_loop(s, SERVER_CONNECTION_ERROR)
    ELSE register_with_server([ s EXCEPT !.ws_conn = TRUE,
                                         !.ws_state = "open",
                                         !.app_state = SERVER_CONNECTED ])

\* webrtcbin applies a description: the signalling state it moves to, the
\* state kept when the description does not fit the current one.
apply_description(st, local, kind) ==
  CASE local /\ kind = "offer" /\ st \in { "stable", "have-local-offer" }
         -> "have-local-offer"
    [] local /\ kind = "answer" /\ st = "have-remote-offer" -> "stable"
    [] ~local /\ kind = "offer" /\ st \in { "stable", "have-remote-offer" }
         -> "have-remote-offer"
    [] ~local /\ kind = "answer" /\ st = "have-local-offer" -> "stable"
    [] OTHER -> st

description_fits(st, local, kind) ==
  \/ local /\ kind = "offer" /\ st \in { "stable", "have-local-offer" }
  \/ local /\ kind = "answer" /\ st = "have-remote-offer"
  \/ ~local /\ kind = "offer" /\ st \in { "stable", "have-remote-offer" }
  \/ ~local /\ kind = "answer" /\ st = "have-local-offer"

RemoveAt(q, i) == SubSeq(q, 1, i - 1) \o SubSeq(q, i + 1, Len(q))

\* webrtcbin runs the request at place i of its queue and replies to the
\* promise of the request, which calls the promise's change function.
webrtc_task(s, i, ub) ==
  LET k == s.pcq[i]
      s0 == [ s EXCEPT !.pcq = RemoveAt(@, i) ]
  IN  CASE k.t = "create-offer" -> on_offer_created(s0, ub)
        [] k.t = "create-answer" ->
             on_answer_created(s0, IF s0.sig[k.w] = "have-remote-offer"
                                     THEN "answer" ELSE NULL)
        [] k.t = "set-local-description" ->
             [ s0 EXCEPT
                 !.sig[k.w] = apply_description(@, TRUE, k.kind),
                 !.gathering[k.w] =
                    @ \/ description_fits(s0.sig[k.w], TRUE, k.kind) ]
        [] k.t = "set-remote-description" ->
             LET s1 == [ s0 EXCEPT
                           !.sig[k.w] = apply_description(@, FALSE, k.kind) ]
             IN  IF k.kind = "offer" THEN on_offer_set(s1) ELSE s1
        [] OTHER -> s0

\* The name of the change function a request's reply calls.
TaskHandler(k) ==
  CASE k.t = "create-offer" -> "on_offer_created"
    [] k.t = "create-answer" -> "on_answer_created"
    [] k.t = "set-remote-description" /\ k.kind = "offer" -> "on_offer_set"
    [] OTHER -> k.t

(***************************************************************************)
(* The data channels and the outbound media branches.  A bin and the sink  *)
(* pad requested for it are numbered by the count of bins created; a       *)
(* member of pipe_bins or req_sinks is the number with the kind of the     *)
(* branch ("video" for the bin named video-to-browser, "audio" for         *)
(* audio-to-browser).                                                      *)
(***************************************************************************)
Kinds == { "video", "audio" }

\* What the uninitialised local transceiver of stop_media_to_browser holds
\* when g_object_get was refused: NULL, or a pointer that cannot be used.
Garbage == { "null", "wild" }

\* The texts a data channel delivers: the five commands and texts that are
\* none of them.
Strs ==
  { "RECV VIDEO START TESTPATTERN", "RECV VIDEO START LOOPBACK",
    "RECV VIDEO STOP", "RECV AUDIO START", "RECV AUDIO STOP",
    "RECV VIDEO START", "recv video stop" }

g_idle_add(s, f, arg) ==
  [ s EXCEPT !.idle = Append(@, [ f |-> f, arg |-> arg ]) ]

data_channel_on_error(s) == cleanup_and_quit_loop(s, 0)

\* "PING %i" with ping_count++, sent on the channel the timeout was made for
\* (the counter is far from the width of unsigned int after MaxPings pings).
data_channel_send_hello(s, dc) ==
  [ s EXCEPT !.pings = Append(@, [ n |-> s.ping_count, dc |-> dc ]),
             !.ping_count = @ + 1 ]

data_channel_on_open(s, dc) ==
  LET s1 == [ s EXCEPT !.ping_count = 0, !.opens[dc] = @ + 1 ]
      s2 == IF s1.done = 0
              THEN [ s1 EXCEPT !.timers[dc] = @ + 1, !.done = 1 ]
              ELSE s1
  IN  g_idle_add(s2, "dump_graph", "none")

\* Mutant: the close of a channel recording a terminal state.
data_channel_on_close_records(s) == cleanup_and_quit_loop(s, PEER_CALL_ERROR)

data_channel_on_close(s) == cleanup_and_quit_loop(s, 0)

\* gst_bin_add (pipe1, bin), which a NULL pipe1 refuses and which fails when
\* pipe1 has a child of the same name; gst_element_request_pad_simple
\* (webrtc1, "sink_%u"), which a NULL webrtc1 refuses.  The result is the
\* globals and the pad returned.
send_media_to_browser(s, kind, bin) ==
  IF s.webrtc1 = 0
    THEN [ s |-> s, sink |-> 0 ]
    ELSE [ s |-> [ s EXCEPT
                     !.pipe_bins =
                        IF \E b \in s.pipe_bins : b.kind = kind
                          THEN @
                          ELSE @ \cup { [ id |-> bin, kind |-> kind ] },
                     !.req_sinks = @ \cup { [ id |-> bin, kind |-> kind ] } ],
           sink |-> bin ]

\* The "direction" of a GstWebRTCRTPTransceiver.
Directions == { "sendrecv", "sendonly", "recvonly", "inactive" }

\* A call made of GStreamer, with the value read or written.
call(s, f, v) == [ s EXCEPT !.calls = Append(@, [ f |-> f, v |-> v ]) ]

\* The direction stop_media_to_browser sets for the direction it read.
demoted(dir) == IF dir = "sendrecv" THEN "recvonly" ELSE "inactive"

\* Mutant: the bin removed from the pipeline before it is shut down.
stop_media_to_browser_removes_first(s, element, sink, ub, dir) ==
  IF sink = 0 /\ ub = "wild"
    THEN [ s EXCEPT !.aborted = TRUE ]
    ELSE LET s1 == call(s, "gst_bin_remove", "none")
             s2 == call(s1, "gst_element_send_event", "eos")
             s3 == call(s2, "g_object_get", dir)
             s4 == call(s3, "g_object_set", demoted(dir))
             s5 == call(s4, "gst_element_set_state", "GST_STATE_NULL")
             s6 == call(s5, "gst_pad_unlink", "none")
             s7 == call(s6, "gst_element_release_request_pad", "none")
         IN  IF s.webrtc1 = 0
               THEN s7
               ELSE [ s7 EXCEPT !.req_sinks = { p \in @ : p.id # sink },
                                !.pipe_bins = { b \in @ : b.id # element } ]

\* With sink NULL g_object_get leaves transceiver uninitialised and the
\* calls that follow use it.  dir is the direction the transceiver of the
\* sink has.
stop_media_to_browser(s, element, sink, ub, dir) ==
  IF sink = 0 /\ ub = "wild"
    THEN [ s EXCEPT !.aborted = TRUE ]
    ELSE LET s1 == call(s, "gst_element_send_event", "eos")
             s2 == call(s1, "g_object_get", dir)
             s3 == call(s2, "g_object_set", demoted(dir))
             s4 == call(s3, "gst_element_set_state", "GST_STATE_NULL")
             s5 == call(s4, "gst_pad_unlink", "none")
             s6 == call(s5, "gst_element_release_request_pad", "none")
             s7 == call(s6, "gst_bin_remove", "none")
         IN  IF s.webrtc1 = 0
               THEN s7
               ELSE [ s7 EXCEPT !.req_sinks = { p \in @ : p.id # sink },
                                !.pipe_bins = { b \in @ : b.id # element } ]

send_video_to_browser(s, source) ==
  LET bin == s.n_bins + 1
      r == send_media_to_browser([ s EXCEPT !.n_bins = bin ], "video", bin)
  IN  [ r.s EXCEPT !.video_sink = r.sink, !.video_bin = bin ]

\* Mutant: stop_video_to_browser leaving the handles as they are.
stop_video_to_browser_keeps(s, ub, dir) ==
  stop_media_to_browser(s, s.video_bin, s.video_sink, ub, dir)

stop_video_to_browser(s, ub, dir) ==
  LET r == stop_media_to_browser(s, s.video_bin, s.video_sink, ub, dir)
  IN  IF r.aborted
        THEN r
        ELSE call([ r EXCEPT !.video_sink = 0, !.video_bin = 0 ],
                  "clear", "video")

send_audio_to_browser(s) ==
  LET bin == s.n_bins + 1
      r == send_media_to_browser([ s EXCEPT !.n_bins = bin ], "audio", bin)
  IN  [ r.s EXCEPT !.audio_sink = r.sink, !.audio_bin = bin ]

stop_audio_to_browser(s, ub, dir) ==
  LET r == stop_media_to_browser(s, s.audio_bin, s.audio_sink, ub, dir)
  IN  IF r.aborted
        THEN r
        ELSE call([ r EXCEPT !.audio_bin = 0, !.audio_sink = 0 ],
                  "clear", "audio")

\* Mutant: the first command recognised by its prefix.
data_channel_on_message_string_prefix(s, str) ==
  LET s1 == IF str \in { "RECV VIDEO START TESTPATTERN", "RECV VIDEO START" }
              THEN g_idle_add(s, "send_video_to_browser",
                              "VIDEO_SOURCE_TEST_PATTERN")
              ELSE s
      s2 == IF str = "RECV VIDEO START LOOPBACK"
              THEN g_idle_add(s1, "send_video_to_browser",
                              "VIDEO_SOURCE_LOOPBACK")
              ELSE s1
      s3 == IF str = "RECV VIDEO STOP"
              THEN g_idle_add(s2, "stop_video_to_browser", "none")
              ELSE s2
      s4 == IF str = "RECV AUDIO START"
              THEN g_idle_add(s3, "send_audio_to_browser", "none")
              ELSE s3
  IN  IF str = "RECV AUDIO STOP"
        THEN g_idle_add(s4, "stop_audio_to_browser", "none")
        ELSE s4

data_channel_on_message_string(s, str) ==
  LET s1 == IF str = "RECV VIDEO START TESTPATTERN"
              THEN g_idle_add(s, "send_video_to_browser",
                              "VIDEO_SOURCE_TEST_PATTERN")
              ELSE s
      s2 == IF str = "RECV VIDEO START LOOPBACK"
              THEN g_idle_add(s1, "send_video_to_browser",
                              "VIDEO_SOURCE_LOOPBACK")
              ELSE s1
      s3 == IF str = "RECV VIDEO STOP"
              THEN g_idle_add(s2, "stop_video_to_browser", "none")
              ELSE s2
      s4 == IF str = "RECV AUDIO START"
              THEN g_idle_add(s3, "send_audio_to_browser", "none")
              ELSE s3
  IN  IF str = "RECV AUDIO STOP"
        THEN g_idle_add(s4, "stop_audio_to_browser", "none")
        ELSE s4

connect_data_channel_signals(s) == [ s EXCEPT !.n_dc = @ + 1 ]

on_data_channel(s) == connect_data_channel_signals(s)

\* The bin a source function is about: the one it creates, or the one whose
\* handle it finds.
SourceBin(s, k) ==
  CASE k.f = "send_video_to_browser" -> s.n_bins + 1
    [] k.f = "send_audio_to_browser" -> s.n_bins + 1
    [] k.f = "stop_video_to_browser" -> s.video_bin
    [] k.f = "stop_audio_to_browser" -> s.audio_bin
    [] OTHER -> 0

\* Mutant: the main loop dispatching the newest idle source.
idle_dispatch_newest(s, ub, dir) ==
  LET k == s.idle[Len(s.idle)]
      s0 == [ s EXCEPT !.idle = SubSeq(@, 1, Len(@) - 1),
                       !.ran = Append(@, [ f |-> k.f, arg |-> k.arg,
                                           bin |-> SourceBin(s, k) ]) ]
  IN  CASE k.f = "send_video_to_browser" -> send_video_to_browser(s0, k.arg)
        [] k.f = "stop_video_to_browser" -> stop_video_to_browser(s0, ub, dir)
        [] k.f = "send_audio_to_browser" -> send_audio_to_browser(s0)
        [] k.f = "stop_audio_to_browser" -> stop_audio_to_browser(s0, ub, dir)
        [] OTHER -> s0

\* The main loop dispatches the oldest idle source; each of the functions
\* returns G_SOURCE_REMOVE.
idle_dispatch(s, ub, dir) ==
  LET k == Head(s.idle)
      s0 == [ s EXCEPT !.idle = Tail(@),
                       !.ran = Append(@, [ f |-> k.f, arg |-> k.arg,
                                           bin |-> SourceBin(s, k) ]) ]
  IN  CASE k.f = "send_video_to_browser" -> send_video_to_browser(s0, k.arg)
        [] k.f = "stop_video_to_browser" -> stop_video_to_browser(s0, ub, dir)
        [] k.f = "send_audio_to_browser" -> send_audio_to_browser(s0)
        [] k.f = "stop_audio_to_browser" -> stop_audio_to_browser(s0, ub, dir)
        [] OTHER -> s0

Running == ~exited /\ ~aborted

\* No message is followed through the wire format.
NoMsg == [ kind |-> "none", str |-> << >>, type |-> "none", idx |-> << 0, 0 >> ]

NoWire == [ stage |-> "none", msg |-> NoMsg, text |-> NoMsg, out |-> NoMsg ]

\* The statics of the media branches and of the data channels as they are
\* initialised: no branch, no channel, nothing scheduled.
NoMedia ==
  /\ video_bin = 0
  /\ video_sink = 0
  /\ audio_bin = 0
  /\ audio_sink = 0
  /\ pipe_bins = { }
  /\ req_sinks = { }
  /\ n_bins = 0
  /\ idle = << >>
  /\ ran = << >>
  /\ n_dc = 0
  /\ opens = [ dc \in 1..MaxChannels |-> 0 ]
  /\ timers = [ dc \in 1..MaxChannels |-> 0 ]
  /\ done = 0
  /\ ping_count = 0
  /\ pings = << >>
  /\ n_cmds = 0
  /\ wire = NoWire

\* main () up to g_main_loop_run: connect_to_websocket_server_async ran.
Init ==
  /\ app_state = SERVER_CONNECTING
  /\ ws_conn = FALSE
  /\ ws_state = "none"
  /\ loop = TRUE
  /\ making_offer = FALSE
  /\ webrtc1 = 0
  /\ sig = [ w \in 1..MaxPipelines |-> "stable" ]
  /\ gathering = [ w \in 1..MaxPipelines |-> FALSE ]
  /\ pcq = << >>
  /\ log = << >>
  /\ ice_added = 0
  /\ close_calls = 0
  /\ quit_calls = 0
  /\ aborted = FALSE
  /\ exited = FALSE
  /\ n_created = 0
  /\ n_msgs = 0
  /\ n_nn = 0
  /\ n_ice = 0
  /\ NoMedia
  /\ ev = [ op |-> "main", arg |-> "none", pre_app |-> APP_STATE_UNKNOWN,
            pre_sig |-> "none", pre_len |-> 0, pre_q |-> 0,
            pre_conn |-> FALSE, cleanups |-> 0, calls |-> << >> ]

OnServerConnected ==
  /\ Running
  /\ app_state = SERVER_CONNECTING /\ ev.op = "main"
  /\ \E err \in BOOLEAN :
       Set(on_server_connected(Cur, err), "on_server_connected", "none")
  /\ UNCHANGED << wire, n_cmds, exited, n_msgs, n_nn, n_ice >>

\* The connection's "message" signal: a text frame of the server, delivered
\* while the connection object lives and has not completed its close.
OnServerMessage ==
  /\ Running
  /\ ws_conn /\ ws_state \in { "open", "closing" }
  /\ n_msgs < MaxMsgs
  /\ \E text \in Msgs, ok \in BOOLEAN, ub \in SigStates :
       /\ (\/ text = "OFFER_REQUEST"
           \/ text = "SESSION_OK" /\ app_state = PEER_CONNECTING) =>
            n_created < MaxPipelines
       /\ text \notin { "SESSION_OK", "OFFER_REQUEST" } => ok
       /\ (webrtc1 # 0 \/ text # "sdp-offer") => ub = "stable"
       /\ Set(on_server_message(Cur, text, ok, ub), "on_server_message", text)
  /\ n_msgs' = n_msgs + 1
  /\ UNCHANGED << wire, n_cmds, exited, n_nn, n_ice >>

\* The connection's "closed" signal: the close handshake completed or the
\* server dropped the connection.
OnServerClosed ==
  /\ Running
  /\ ws_conn /\ ws_state \in { "open", "closing" }
  /\ Set(on_server_closed([ Cur EXCEPT !.ws_state = "closed" ]),
         "on_server_closed", "none")
  /\ UNCHANGED << wire, n_cmds, exited, n_msgs, n_nn, n_ice >>

\* webrtcbin instance w emits on-negotiation-needed: after its pipeline went
\* to PLAYING and whenever its conditions change later, in any signalling
\* state, but not again while a create-offer request is queued in w.
OnNegotiationNeeded ==
  /\ Running
  /\ n_nn < MaxNegotiationNeeded
  /\ \E w \in 1..n_created :
       /\ \A i \in 1..Len(pcq) : ~(pcq[i].t = "create-offer" /\ pcq[i].w = w)
       /\ Set(on_negotiation_needed(Cur), "on_negotiation_needed", "none")
  /\ n_nn' = n_nn + 1
  /\ UNCHANGED << wire, n_cmds, exited, n_msgs, n_ice >>

\* webrtcbin instance w, which has a local description, emits
\* on-ice-candidate.
OnIceCandidate ==
  /\ Running
  /\ n_ice < MaxIce
  /\ \E w \in 1..n_created :
       /\ gathering[w]
       /\ Set(send_ice_candidate_message(Cur), "send_ice_candidate_message",
              "none")
  /\ n_ice' = n_ice + 1
  /\ UNCHANGED << wire, n_cmds, exited, n_msgs, n_nn >>

\* A webrtcbin instance runs the oldest request of its queue.
WebrtcTask ==
  /\ Running
  /\ \E i \in 1..Len(pcq), ub \in SigStates :
       /\ \A j \in 1..(i - 1) : pcq[j].w # pcq[i].w
       /\ (webrtc1 # 0 \/ pcq[i].t # "create-offer") => ub = "stable"
       /\ Set(webrtc_task(Cur, i, ub), TaskHandler(pcq[i]), pcq[i].kind)
  /\ UNCHANGED << wire, n_cmds, exited, n_msgs, n_nn, n_ice >>

\* int ret_code of main () once check_plugins passed.
ret_code == 0

\* g_free (our_id) frees a string literal: the allocator either returns or
\* ends the process with a signal.
FreeOutcomes == { "returns", "aborts" }

\* What the parent process sees of main () returning: ret_code, or the
\* signal.
main_return(ub) == IF ub = "aborts" THEN "SIGABRT" ELSE ToString(ret_code)

\* g_main_loop_run returned after g_main_loop_quit; main () returns.
MainReturn ==
  /\ Running
  /\ ~loop
  /\ exited' = TRUE
  /\ \E ub \in FreeOutcomes :
       ev' = Entry("main_return", main_return(ub))
               @@ [ cleanups |-> 0, calls |-> << >> ]
  /\ UNCHANGED << app_state, ws_conn, ws_state, loop, making_offer, webrtc1,
                  sig, gathering, pcq, log, ice_added, close_calls, quit_calls,
                  aborted, n_created, n_msgs, n_nn, n_ice, video_bin,
                  video_sink, audio_bin, audio_sink, pipe_bins, req_sinks,
                  n_bins, idle, ran, n_dc, opens, timers, done, ping_count,
                  pings, n_cmds, wire >>

Next ==
  \/ OnServerConnected
  \/ OnServerMessage
  \/ OnServerClosed
  \/ OnNegotiationNeeded
  \/ OnIceCandidate
  \/ WebrtcTask
  \/ MainReturn

Spec == Init /\ [][Next]_vars

(***************************************************************************)
(* The data channels and the media branches of a session whose pipeline    *)
(* runs: the session is in a call, its websocket open and the loop         *)
(* running, or closing or released (after the close callback and a         *)
(* renegotiation) with the loop quit.                                      *)
(***************************************************************************)
InitChannel ==
  /\ \E c \in { << PEER_CALL_NEGOTIATING, TRUE, "open", TRUE >>,
               << PEER_CALL_STARTED, TRUE, "open", TRUE >>,
               << PEER_CALL_NEGOTIATING, TRUE, "closing", FALSE >>,
               << PEER_CALL_STARTED, TRUE, "closing", FALSE >>,
               << PEER_CALL_NEGOTIATING, FALSE, "closed", FALSE >> } :
       /\ app_state = c[1]
       /\ ws_conn = c[2]
       /\ ws_state = c[3]
       /\ loop = c[4]
  /\ making_offer = FALSE
  /\ webrtc1 = 1
  /\ sig = [ w \in 1..MaxPipelines |-> "stable" ]
  /\ gathering = [ w \in 1..MaxPipelines |-> FALSE ]
  /\ pcq = << >>
  /\ log = << >>
  /\ ice_added = 0
  /\ close_calls = IF ws_state = "open" THEN 0 ELSE 1
  /\ quit_calls = IF loop THEN 0 ELSE 1
  /\ aborted = FALSE
  /\ exited = FALSE
  /\ n_created = 1
  /\ n_msgs = 0
  /\ n_nn = 0
  /\ n_ice = 0
  /\ NoMedia
  /\ ev = [ op |-> "main", arg |-> "none", pre_app |-> APP_STATE_UNKNOWN,
            pre_sig |-> "none", pre_len |-> 0, pre_q |-> 0,
            pre_conn |-> FALSE, cleanups |-> 0, calls |-> << >> ]

\* webrtcbin announces a data channel the peer created.
OnDataChannel ==
  /\ Running
  /\ webrtc1 # 0
  /\ n_dc < MaxChannels
  /\ Set(on_data_channel(Cur), "on_data_channel", "none")
  /\ UNCHANGED << wire, n_cmds, exited, n_msgs, n_nn, n_ice >>

\* The on-open signals delivered for the channels 1..n.
RECURSIVE TotalOpens(_)
TotalOpens(n) == IF n = 0 THEN 0 ELSE opens[n] + TotalOpens(n - 1)

\* A channel emits on-open; the signal can come more than once for one
\* channel.  MaxOpens bounds the signals of all channels together.
DataChannelOnOpen ==
  /\ Running
  /\ \E dc \in 1..n_dc :
       /\ TotalOpens(MaxChannels) < MaxOpens
       /\ Set(data_channel_on_open(Cur, dc), "data_channel_on_open",
              ToString(dc))
  /\ UNCHANGED << wire, n_cmds, exited, n_msgs, n_nn, n_ice >>

\* An open channel delivers a text message.
DataChannelOnMessageString ==
  /\ Running
  /\ n_cmds < MaxCmds
  /\ \E dc \in 1..n_dc, str \in Strs :
       /\ opens[dc] > 0
       /\ Set(data_channel_on_message_string(Cur, str),
              "data_channel_on_message_string", str)
  /\ n_cmds' = n_cmds + 1
  /\ UNCHANGED << wire, exited, n_msgs, n_nn, n_ice >>

DataChannelOnError ==
  /\ Running
  /\ \E dc \in 1..n_dc :
       Set(data_channel_on_error(Cur), "data_channel_on_error", ToString(dc))
  /\ UNCHANGED << wire, n_cmds, exited, n_msgs, n_nn, n_ice >>

DataChannelOnClose ==
  /\ Running
  /\ \E dc \in 1..n_dc :
       Set(data_channel_on_close(Cur), "data_channel_on_close", ToString(dc))
  /\ UNCHANGED << wire, n_cmds, exited, n_msgs, n_nn, n_ice >>

\* The running main loop dispatches the oldest idle source.
IdleDispatch ==
  /\ Running
  /\ loop
  /\ idle # << >>
  /\ \E ub \in Garbage, dir \in Directions :
       /\ ( \/ Head(idle).f \notin { "stop_video_to_browser",
                                     "stop_audio_to_browser" }
            \/ Head(idle).f = "stop_video_to_browser" /\ video_sink # 0
            \/ Head(idle).f = "stop_audio_to_browser" /\ audio_sink # 0 )
          => ub = "null"
       /\ Head(idle).f \notin { "stop_video_to_browser",
                                "stop_audio_to_browser" }
          => dir = "sendrecv"
       /\ Set(idle_dispatch(Cur, ub, dir), Head(idle).f, Head(idle).arg)
  /\ UNCHANGED << wire, n_cmds, exited, n_msgs, n_nn, n_ice >>

\* The running main loop dispatches a timeout source of
\* data_channel_send_hello, which returns G_SOURCE_CONTINUE.
PingTimeout ==
  /\ Running
  /\ loop
  /\ Len(pings) < MaxPings
  /\ \E dc \in 1..n_dc :
       /\ timers[dc] > 0
       /\ Set(data_channel_send_hello(Cur, dc), "data_channel_send_hello",
              ToString(dc))
  /\ UNCHANGED << wire, n_cmds, exited, n_msgs, n_nn, n_ice >>

\* The life of the data channels: announced, opened, pinged, closed.
NextChannel ==
  \/ OnDataChannel
  \/ DataChannelOnOpen
  \/ DataChannelOnError
  \/ DataChannelOnClose
  \/ IdleDispatch
  \/ PingTimeout

SpecChannel == InitChannel /\ [][NextChannel]_vars

\* A session in a call, its websocket open and the loop running, with one
\* data channel that opened (the ping timeout was made for it and the
\* dump_graph source was dispatched): the state the commands arrive in.
InitMedia ==
  /\ app_state \in { PEER_CALL_NEGOTIATING, PEER_CALL_STARTED }
  /\ ws_conn = TRUE
  /\ ws_state = "open"
  /\ loop = TRUE
  /\ making_offer = FALSE
  /\ webrtc1 = 1
  /\ sig = [ w \in 1..MaxPipelines |-> "stable" ]
  /\ gathering = [ w \in 1..MaxPipelines |-> FALSE ]
  /\ pcq = << >>
  /\ log = << >>
  /\ ice_added = 0
  /\ close_calls = 0
  /\ quit_calls = 0
  /\ aborted = FALSE
  /\ exited = FALSE
  /\ n_created = 1
  /\ n_msgs = 0
  /\ n_nn = 0
  /\ n_ice = 0
  /\ video_bin = 0
  /\ video_sink = 0
  /\ audio_bin = 0
  /\ audio_sink = 0
  /\ pipe_bins = { }
  /\ req_sinks = { }
  /\ n_bins = 0
  /\ idle = << >>
  /\ ran = << [ f |-> "dump_graph", arg |-> "none", bin |-> 0 ] >>
  /\ n_dc = 1
  /\ opens = [ dc \in 1..MaxChannels |-> IF dc = 1 THEN 1 ELSE 0 ]
  /\ timers = [ dc \in 1..MaxChannels |-> IF dc = 1 THEN 1 ELSE 0 ]
  /\ done = 1
  /\ ping_count = 0
  /\ pings = << >>
  /\ n_cmds = 0
  /\ wire = NoWire
  /\ ev = [ op |-> "main", arg |-> "none", pre_app |-> APP_STATE_UNKNOWN,
            pre_sig |-> "none", pre_len |-> 0, pre_q |-> 0,
            pre_conn |-> FALSE, cleanups |-> 0, calls |-> << >> ]

\* The commands of the peer and the idle sources they schedule.
NextMedia ==
  \/ DataChannelOnMessageString
  \/ IdleDispatch

SpecMedia == InitMedia /\ [][NextMedia]_vars

\* The commands, the idle sources and the end of the channel they came on.
NextTasks ==
  \/ DataChannelOnMessageString
  \/ IdleDispatch
  \/ DataChannelOnClose

SpecTasks == InitMedia /\ [][NextTasks]_vars

(***************************************************************************)
(* The JSON wire format of the sdp and ice messages.  A string is a       *)
(* sequence of characters.  A 32-bit or 64-bit integer is written with    *)
(* 16-bit limbs, << hi, lo >> standing for hi * 65536 + lo, so that every *)
(* value of a guint can be told; a signed integer is a sign and the limbs *)
(* of its magnitude.  A JSON text is the object with its leaves as        *)
(* they are written: strings escaped, integers in decimal digits.         *)
(***************************************************************************)
Limb == 65536

\* The longest candidate or SDP text drawn.
MaxLen == 2

\* A letter, a letter that is also an escape code, the two printable
\* characters JSON escapes, and the line end of an SDP text.
Alphabet == { "a", "n", "\"", "\\", "\n" }

RECURSIVE StringsOf(_)
StringsOf(n) ==
  IF n = 0
    THEN { << >> }
    ELSE LET shorter == StringsOf(n - 1)
         IN  shorter \cup { Append(w, c) : w \in shorter, c \in Alphabet }

\* Values of guint mlineindex: the ends of the range, the values around
\* 2^16 and 2^31, and a value with more than one digit in each limb.
Indices ==
  { << 0, 0 >>, << 0, 1 >>, << 0, 10 >>, << 0, 65535 >>, << 1, 0 >>,
    << 4, 48576 >>, << 32767, 65535 >>, << 32768, 0 >>, << 65535, 65535 >> }

\* The character(s) json_generator_to_data writes for a character.
json_escape_char(c) ==
  CASE c = "\"" -> << "\\", "\"" >>
    [] c = "\\" -> << "\\", "\\" >>
    [] c = "\n" -> << "\\", "n" >>
    [] OTHER -> << c >>

RECURSIVE json_escape(_)
json_escape(str) ==
  IF str = << >>
    THEN << >>
    ELSE json_escape_char(Head(str)) \o json_escape(Tail(str))

\* The character the parser reads for the escape code c.
json_escaped(c) == IF c = "n" THEN "\n" ELSE c

RECURSIVE json_unescape(_)
json_unescape(txt) ==
  IF txt = << >>
    THEN << >>
    ELSE IF Head(txt) = "\\" /\ Len(txt) >= 2
           THEN << json_escaped(txt[2]) >> \o json_unescape(Tail(Tail(txt)))
           ELSE << Head(txt) >> \o json_unescape(Tail(txt))

\* json_object_set_int_member (ice, "sdpMLineIndex", mlineindex): the guint
\* becomes a gint64 of the same value.
to_gint64(u) == [ neg |-> FALSE, mag |-> u ]

\* The decimal digits of a magnitude, the last one first removed.
RECURSIVE digits_of(_)
digits_of(m) ==
  IF m = << 0, 0 >>
    THEN << >>
    ELSE LET t == (m[1] % 10) * Limb + m[2]
         IN  Append(digits_of(<< m[1] \div 10, t \div 10 >>), t % 10)

\* The generator writes a gint64 in decimal.
json_int_text(v) ==
  [ neg |-> v.neg,
    digits |-> IF v.mag = << 0, 0 >> THEN << 0 >> ELSE digits_of(v.mag) ]

RECURSIVE mag_of(_)
mag_of(ds) ==
  IF ds = << >>
    THEN << 0, 0 >>
    ELSE LET m == mag_of(SubSeq(ds, 1, Len(ds) - 1))
             t == m[2] * 10 + ds[Len(ds)]
         IN  << m[1] * 10 + t \div Limb, t % Limb >>

\* json_object_get_int_member: the gint64 the parser read.
json_int_value(txt) == [ neg |-> txt.neg, mag |-> mag_of(txt.digits) ]

\* 2^32 - m for 0 < m < 2^32.
Complement(m) ==
  IF m[2] = 0 THEN << Limb - m[1], 0 >> ELSE << Limb - 1 - m[1], Limb - m[2] >>

\* Mutant: a conversion to gint that saturates.
to_gint_saturating(v) ==
  IF v.mag[1] >= Limb \div 2
    THEN [ neg |-> v.neg, mag |-> << Limb \div 2 - 1, Limb - 1 >> ]
    ELSE [ neg |-> v.neg, mag |-> v.mag ]

\* gint sdpmlineindex = json_object_get_int_member (...): the low 32 bits
\* of the gint64 (which is not negative here) read as a signed integer.
to_gint(v) ==
  LET low == << v.mag[1] % Limb, v.mag[2] >>
  IN  IF low[1] >= Limb \div 2
        THEN [ neg |-> TRUE, mag |-> Complement(low) ]
        ELSE [ neg |-> FALSE, mag |-> low ]

\* g_signal_emit_by_name (webrtc1, "add-ice-candidate", sdpmlineindex, ...):
\* the gint is collected and handed to webrtcbin as the guint of the same
\* bits.
to_guint(i) == IF i.neg THEN Complement(i.mag) ELSE i.mag

\* The text send_ice_candidate_message builds.
ice_text(candidate, mlineindex) ==
  [ kind |-> "ice", str |-> json_escape(candidate), type |-> "none",
    idx |-> json_int_text(to_gint64(mlineindex)) ]

\* The text send_sdp_to_peer builds for a description of type "offer" or
\* "answer".
sdp_text(type, text) ==
  [ kind |-> "sdp", str |-> json_escape(text),
    type |-> IF type = "offer" THEN "offer" ELSE "answer",
    idx |-> json_int_text(to_gint64(<< 0, 0 >>)) ]

get_string_from_json_object(msg) ==
  IF msg.kind = "ice"
    THEN ice_text(msg.str, msg.idx)
    ELSE sdp_text(msg.type, msg.str)

\* What on_server_message reads of a text with the member "sdp": the type
\* of the description it builds and the text it parses.
sdp_read(txt) ==
  [ kind |-> "sdp", str |-> json_unescape(txt.str),
    type |-> IF txt.type = "answer" THEN "answer" ELSE "offer",
    idx |-> << 0, 0 >> ]

\* What on_server_message reads of a text with the member "ice": the
\* arguments of add-ice-candidate.
ice_read(txt) ==
  [ kind |-> "ice", str |-> json_unescape(txt.str), type |-> "none",
    idx |-> to_guint(to_gint(json_int_value(txt.idx))) ]

json_read(txt) == IF txt.kind = "ice" THEN ice_read(txt) ELSE sdp_read(txt)

\* The candidates webrtcbin produces and the descriptions it creates (the
\* text of a description is not empty).
WireInputs ==
  { [ kind |-> "ice", str |-> c, type |-> "none", idx |-> i ] :
      c \in StringsOf(MaxLen), i \in Indices }
  \cup { [ kind |-> "sdp", str |-> c, type |-> ty, idx |-> << 0, 0 >> ] :
           c \in StringsOf(MaxLen) \ { << >> }, ty \in { "offer", "answer" } }

\* A session in a call with one message to send.
InitWire ==
  /\ app_state = PEER_CALL_NEGOTIATING
  /\ ws_conn = TRUE
  /\ ws_state = "open"
  /\ loop = TRUE
  /\ making_offer = FALSE
  /\ webrtc1 = 1
  /\ sig = [ w \in 1..MaxPipelines |-> "stable" ]
  /\ gathering = [ w \in 1..MaxPipelines |-> FALSE ]
  /\ pcq = << >>
  /\ log = << >>
  /\ ice_added = 0
  /\ close_calls = 0
  /\ quit_calls = 0
  /\ aborted = FALSE
  /\ exited = FALSE
  /\ n_created = 1
  /\ n_msgs = 0
  /\ n_nn = 0
  /\ n_ice = 0
  /\ video_bin = 0
  /\ video_sink = 0
  /\ audio_bin = 0
  /\ audio_sink = 0
  /\ pipe_bins = { }
  /\ req_sinks = { }
  /\ n_bins = 0
  /\ idle = << >>
  /\ ran = << >>
  /\ n_dc = 0
  /\ opens = [ dc \in 1..MaxChannels |-> 0 ]
  /\ timers = [ dc \in 1..MaxChannels |-> 0 ]
  /\ done = 0
  /\ ping_count = 0
  /\ pings = << >>
  /\ n_cmds = 0
  /\ \E m \in WireInputs :
       wire = [ stage |-> "made", msg |-> m, text |-> NoMsg, out |-> NoMsg ]
  /\ ev = [ op |-> "main", arg |-> "none", pre_app |-> APP_STATE_UNKNOWN,
            pre_sig |-> "none", pre_len |-> 0, pre_q |-> 0,
            pre_conn |-> FALSE, cleanups |-> 0, calls |-> << >> ]

\* send_ice_candidate_message or send_sdp_to_peer writes the message.
WireSend ==
  /\ wire.stage = "made"
  /\ wire' = [ wire EXCEPT !.stage = "sent",
                           !.text = get_string_from_json_object(wire.msg) ]
  /\ UNCHANGED << app_state, ws_conn, ws_state, loop, making_offer, webrtc1,
                  sig, gathering, pcq, log, ice_added, close_calls, quit_calls,
                  aborted, exited, n_created, n_msgs, n_nn, n_ice, video_bin,
                  video_sink, audio_bin, audio_sink, pipe_bins, req_sinks,
                  n_bins, idle, ran, n_dc, opens, timers, done, ping_count,
                  pings, n_cmds, ev >>

\* on_server_message reads the text.
WireReceive ==
  /\ wire.stage = "sent"
  /\ wire' = [ wire EXCEPT !.stage = "read", !.out = json_read(wire.text) ]
  /\ UNCHANGED << app_state, ws_conn, ws_state, loop, making_offer, webrtc1,
                  sig, gathering, pcq, log, ice_added, close_calls, quit_calls,
                  aborted, exited, n_created, n_msgs, n_nn, n_ice, video_bin,
                  video_sink, audio_bin, audio_sink, pipe_bins, req_sinks,
                  n_bins, idle, ran, n_dc, opens, timers, done, ping_count,
                  pings, n_cmds, ev >>

NextWire == WireSend \/ WireReceive

SpecWire == InitWire /\ [][NextWire]_vars

(***************************************************************************)
(* The claims.                                                             *)
(***************************************************************************)

SdpOrIce == { "offer", "answer", "ice" }

NotStable == { "have-local-offer", "have-remote-offer" }

\* C1: no sdp or ice message is handed to the websocket while app_state is
\* below PEER_CALL_NEGOTIATING; a send called in such a state (the one the
\* program reaches is send_ice_candidate_message) sends nothing and calls
\* cleanup_and_quit_loop, which records APP_STATE_ERROR.
C1_SendRequiresNegotiating ==
  /\ \A i \in 1..Len(log) :
       log[i].kind \in SdpOrIce => log[i].st >= PEER_CALL_NEGOTIATING
  /\ (ev.op = "send_ice_candidate_message"
        /\ ev.pre_app < PEER_CALL_NEGOTIATING) =>
       /\ Len(log) = ev.pre_len
       /\ ev.cleanups = 1
       /\ app_state = APP_STATE_ERROR

\* A candidate was produced while app_state was below PEER_CALL_NEGOTIATING
\* and the send was refused.
C1_Witness ==
  /\ ev.op = "send_ice_candidate_message"
  /\ ev.pre_app < PEER_CALL_NEGOTIATING
  /\ app_state = APP_STATE_ERROR
  /\ \E i \in 1..Len(log) : log[i].kind = "offer"

\* C2: an offer whose creation completes while the signalling state of the
\* peer connection is not stable is abandoned: making_offer is FALSE again,
\* no set-local-description is requested, nothing is sent and the
\* signalling state (the other side's offer) is kept.
C2_GlareAbandonsLocalOffer ==
  [][ ( /\ ev'.op = "on_offer_created"
        /\ app_state = PEER_CALL_NEGOTIATING
        /\ webrtc1 # 0
        /\ sig[webrtc1] \in NotStable )
      => ( /\ making_offer' = FALSE
           /\ \A i \in 1..Len(pcq') : pcq'[i].t # "set-local-description"
                \/ \E j \in 1..Len(pcq) : pcq[j] = pcq'[i]
           /\ Len(pcq') = Len(pcq) - 1
           /\ log' = log
           /\ sig' = sig
           /\ app_state' = app_state
           /\ ~aborted' ) ]_vars

\* on-negotiation-needed set making_offer, the offer was created while a
\* remote offer was being processed, and the attempt was abandoned.
C2_Witness ==
  /\ ev.op = "on_offer_created"
  /\ ev.pre_app = PEER_CALL_NEGOTIATING
  /\ ev.pre_sig = "have-remote-offer"
  /\ ~making_offer
  /\ Len(log) = ev.pre_len
  /\ ~aborted

\* C3: a remote offer received while the signalling state of the peer
\* connection is not stable is ignored: no request is made of webrtcbin
\* (no set-remote-description, no create-answer), nothing is sent to the
\* peer and cleanup_and_quit_loop is not called.
C3_RemoteOfferIgnoredWhenNotStable ==
  [][ ( /\ ev'.op = "on_server_message"
        /\ ev'.arg = "sdp-offer"
        /\ webrtc1 # 0
        /\ sig[webrtc1] \in NotStable )
      => ( /\ pcq' = pcq
           /\ log' = log
           /\ sig' = sig
           /\ ev'.cleanups = 0 ) ]_vars

\* A remote offer arrived while the program's own offer was applied.
C3_Witness ==
  /\ ev.op = "on_server_message"
  /\ ev.arg = "sdp-offer"
  /\ ev.pre_sig = "have-local-offer"
  /\ Len(pcq) = ev.pre_q
  /\ Len(log) = ev.pre_len

\* C4 (as claimed): an answer is sent to the peer only after webrtcbin ran
\* the set-local-description request made for it; no answer is sent while
\* that request is still queued.
C4_AnswerSentAfterLocalDescription ==
  \A i \in 1..Len(log) : log[i].kind = "answer" => ~log[i].lpend

AnswerPending ==
  \E i \in 1..Len(pcq) :
     pcq[i].t = "set-remote-description" /\ pcq[i].kind = "answer"

\* C5 (as claimed): app_state is never PEER_CALL_STARTED while the
\* set-remote-description request made for a remote answer is queued.
C5_StartedOnlyAfterAcknowledgement ==
  ~(app_state = PEER_CALL_STARTED /\ AnswerPending)

\* C5 (amended): on a remote answer on_server_message requests
\* set-remote-description of webrtc1 (nothing when webrtc1 is NULL) and
\* sets app_state to PEER_CALL_STARTED in the same call, without waiting
\* for the request to be run.
C5_StartedWhenAnswerHandled ==
  [][ ( ev'.op = "on_server_message" /\ ev'.arg = "sdp-answer" )
      => ( /\ app_state' = PEER_CALL_STARTED
           /\ pcq' = IF webrtc1 = 0
                       THEN pcq
                       ELSE Append(pcq, [ t |-> "set-remote-description",
                                          kind |-> "answer", w |-> webrtc1 ])
           /\ sig' = sig
           /\ ev'.cleanups = 0 ) ]_vars

\* The answer to the program's own offer arrived: the state is
\* PEER_CALL_STARTED and the request is still queued.
C5_Witness ==
  /\ ev.op = "on_server_message"
  /\ ev.arg = "sdp-answer"
  /\ ev.pre_sig = "have-local-offer"
  /\ app_state = PEER_CALL_STARTED
  /\ AnswerPending

\* The states of a successful call, in their order (the order of their
\* values), and the sinks.
CallSequence ==
  { SERVER_CONNECTING, SERVER_CONNECTED, SERVER_REGISTERING,
    SERVER_REGISTERED, PEER_CONNECTING, PEER_CONNECTED,
    PEER_CALL_NEGOTIATING, PEER_CALL_STARTED }

Sinks == ErrorStates \cup { SERVER_CLOSED }

ForwardOrSink(a, b) ==
  \/ a = b
  \/ b \in Sinks
  \/ a \in CallSequence /\ b \in CallSequence /\ a < b

\* C6 (as claimed): app_state never moves from a later state of the call
\* sequence to an earlier one; in particular not from PEER_CALL_STARTED back
\* to PEER_CALL_NEGOTIATING.
C6_StateMonotone ==
  [][ ( app_state \in CallSequence /\ app_state' \in CallSequence )
      => app_state <= app_state' ]_vars

\* C6 (amended): every change of app_state is a forward move in the call
\* sequence or a move into a sink, except that on-negotiation-needed
\* (create_offer) and a remote offer (any sdp message that is no answer,
\* also one whose text is missing) set PEER_CALL_NEGOTIATING, and a remote
\* answer sets PEER_CALL_STARTED, from whatever state the program is in,
\* PEER_CALL_STARTED and the sinks included.
C6_MonotoneExceptNegotiation ==
  [][ \/ ForwardOrSink(app_state, app_state')
      \/ /\ ev'.op = "on_negotiation_needed"
         /\ app_state' = PEER_CALL_NEGOTIATING
      \/ /\ ev'.op = "on_server_message"
         /\ ev'.arg \in { "sdp-offer", "sdp-notext" }
         /\ app_state' = PEER_CALL_NEGOTIATING
      \/ /\ ev'.op = "on_server_message"
         /\ ev'.arg = "sdp-answer"
         /\ app_state' = PEER_CALL_STARTED ]_vars

\* A renegotiation after the call started moved the state back.
C6_Witness ==
  /\ ev.op = "on_negotiation_needed"
  /\ ev.pre_app = PEER_CALL_STARTED
  /\ app_state = PEER_CALL_NEGOTIATING

\* C7 (as claimed): at most one create-offer request is outstanding at any
\* time.
C7_OneOfferInFlight ==
  Cardinality({ i \in 1..Len(pcq) : pcq[i].t = "create-offer" }) <= 1

\* C8: over all calls of cleanup_and_quit_loop the websocket close is
\* requested at most once and the loop is quit at most once and is not
\* created again; a call made when ws_conn is NULL does nothing to the
\* connection and sends nothing.
C8_ShutdownIdempotent ==
  /\ [](close_calls <= 1 /\ quit_calls <= 1)
  /\ [][ ~loop => ~loop' ]_vars
  /\ [][ ( ev'.cleanups > 0 /\ ~ws_conn )
         => ( /\ ~ws_conn'
              /\ ws_state' = ws_state
              /\ close_calls' = close_calls
              /\ quit_calls' = IF loop THEN quit_calls + 1 ELSE quit_calls
              /\ log' = log ) ]_vars

\* cleanup_and_quit_loop requested the close and quit the loop, the close
\* callback called it again, which cleared ws_conn, and a third call was
\* made after that.
C8_Witness ==
  /\ ev.cleanups = 1
  /\ ~ev.pre_conn
  /\ ~ws_conn
  /\ close_calls = 1
  /\ quit_calls = 1
  /\ ws_state = "closed"

\* The ERROR branch of on_server_message entered in any application state:
\* the state and the connection are the inputs.
InitError ==
  /\ app_state \in AppState
  /\ ws_conn = TRUE
  /\ ws_state \in { "open", "closing" }
  /\ loop \in BOOLEAN
  /\ making_offer \in BOOLEAN
  /\ webrtc1 = 0
  /\ sig = [ w \in 1..MaxPipelines |-> "stable" ]
  /\ gathering = [ w \in 1..MaxPipelines |-> FALSE ]
  /\ pcq = << >>
  /\ log = << >>
  /\ ice_added = 0
  /\ close_calls = 0
  /\ quit_calls = 0
  /\ aborted = FALSE
  /\ exited = FALSE
  /\ n_created = 0
  /\ n_msgs = 0
  /\ n_nn = 0
  /\ n_ice = 0
  /\ NoMedia
  /\ ev = [ op |-> "main", arg |-> "none", pre_app |-> APP_STATE_UNKNOWN,
            pre_sig |-> "none", pre_len |-> 0, pre_q |-> 0,
            pre_conn |-> FALSE, cleanups |-> 0, calls |-> << >> ]

OnErrorMessage ==
  /\ Running
  /\ ev.op = "main"
  /\ Set(on_server_message(Cur, "ERROR", TRUE, "stable"),
         "on_server_message", "ERROR")
  /\ n_msgs' = n_msgs + 1
  /\ UNCHANGED << wire, n_cmds, exited, n_nn, n_ice >>

SpecError == InitError /\ [][OnErrorMessage]_vars

\* C9: a message with the prefix ERROR moves SERVER_CONNECTING to
\* SERVER_CONNECTION_ERROR, SERVER_REGISTERING to SERVER_REGISTRATION_ERROR,
\* PEER_CONNECTING to PEER_CONNECTION_ERROR, PEER_CONNECTED and
\* PEER_CALL_NEGOTIATING to PEER_CALL_ERROR, and then calls
\* cleanup_and_quit_loop, which leaves that state.
C9_ErrorClassification ==
  ( ev.op = "on_server_message" /\ ev.arg = "ERROR" ) =>
    /\ ev.cleanups = 1
    /\ ~loop
    /\ ev.pre_app = SERVER_CONNECTING => app_state = SERVER_CONNECTION_ERROR
    /\ ev.pre_app = SERVER_REGISTERING =>
         app_state = SERVER_REGISTRATION_ERROR
    /\ ev.pre_app = PEER_CONNECTING => app_state = PEER_CONNECTION_ERROR
    /\ ev.pre_app = PEER_CONNECTED => app_state = PEER_CALL_ERROR
    /\ ev.pre_app = PEER_CALL_NEGOTIATING => app_state = PEER_CALL_ERROR

\* ERROR arrived in PEER_CONNECTED, the case the switch falls through for.
C9_Witness ==
  /\ ev.op = "on_server_message"
  /\ ev.arg = "ERROR"
  /\ ev.pre_app = PEER_CONNECTED
  /\ app_state = PEER_CALL_ERROR
  /\ ev.cleanups = 1

\* C10: HELLO in a state other than SERVER_REGISTERING and SESSION_OK in a
\* state other than PEER_CONNECTING call cleanup_and_quit_loop, which
\* records APP_STATE_ERROR, respectively PEER_CONNECTION_ERROR; nothing is
\* sent and no pipeline is created.
C10_OutOfStateIsTerminal ==
  [][ /\ ( /\ ev'.op = "on_server_message"
           /\ ev'.arg = "HELLO"
           /\ app_state # SERVER_REGISTERING )
         => ( /\ app_state' = APP_STATE_ERROR
              /\ ev'.cleanups = 1
              /\ ~loop'
              /\ log' = log
              /\ << webrtc1', n_created', pcq' >> = << webrtc1, n_created, pcq >> )
      /\ ( /\ ev'.op = "on_server_message"
           /\ ev'.arg = "SESSION_OK"
           /\ app_state # PEER_CONNECTING )
         => ( /\ app_state' = PEER_CONNECTION_ERROR
              /\ ev'.cleanups = 1
              /\ ~loop'
              /\ log' = log
              /\ << webrtc1', n_created', pcq' >> = << webrtc1, n_created, pcq >> )
    ]_vars

\* A second HELLO arrived after the registration was accepted.
C10_Witness ==
  /\ ev.op = "on_server_message"
  /\ ev.arg = "HELLO"
  /\ ev.pre_app = SERVER_REGISTERED
  /\ app_state = APP_STATE_ERROR
  /\ ev.cleanups = 1

\* C11 (as claimed): once app_state holds an *Error value no later handler
\* changes it to any other value.
C11_ErrorStatesAreSinks ==
  [][ ( app_state \in ErrorStates ) => ( app_state' = app_state ) ]_vars

StartOf(k) ==
  IF k = "video" THEN "send_video_to_browser" ELSE "send_audio_to_browser"

StopOf(k) ==
  IF k = "video" THEN "stop_video_to_browser" ELSE "stop_audio_to_browser"

BinOf(k) == IF k = "video" THEN video_bin ELSE audio_bin

SinkOf(k) == IF k = "video" THEN video_sink ELSE audio_sink

\* The start and stop tasks of kind k that ran, in their order.
KindRan(k) == SelectSeq(ran, LAMBDA e : e.f \in { StartOf(k), StopOf(k) })

BinsOf(k) == { b \in pipe_bins : b.kind = k }

SinksOf(k) == { q \in req_sinks : q.kind = k }

\* C12 (as claimed): at any time at most one branch of a kind is attached
\* and at most one sink pad is requested for it, however many start tasks
\* ran.
C12_OneBranchPerKind ==
  \A k \in Kinds : Cardinality(BinsOf(k)) <= 1 /\ Cardinality(SinksOf(k)) <= 1

\* C13 (as claimed): a stop task of a kind whose handles are NULL does
\* nothing: the program goes on and the handles, the bins of the pipeline
\* and the requested pads are what they were.
C13_StopDetachedIsNoOp ==
  [][ \A k \in Kinds :
        ( ev'.op = StopOf(k) /\ BinOf(k) = 0 /\ SinkOf(k) = 0 )
        => ( /\ ~aborted'
             /\ << video_bin', video_sink', audio_bin', audio_sink' >>
                  = << video_bin, video_sink, audio_bin, audio_sink >>
             /\ pipe_bins' = pipe_bins
             /\ req_sinks' = req_sinks ) ]_vars

\* C14: a stop task of a kind whose branch is attached removes the bin,
\* releases the pad and clears both handles; and after start, stop, start
\* of one kind exactly one bin and one pad of the kind exist, they are the
\* ones the second start created and the handles name them, the stop in
\* between having been handed the bin of the first start.
C14_BranchLifecycle ==
  /\ [][ \A k \in Kinds :
           ( ev'.op = StopOf(k) /\ BinOf(k) # 0 /\ SinkOf(k) # 0 )
           => ( /\ BinOf(k)' = 0
                /\ SinkOf(k)' = 0
                /\ \A b \in pipe_bins' : b.id # BinOf(k)
                /\ \A q \in req_sinks' : q.id # SinkOf(k)
                /\ ~aborted' ) ]_vars
  /\ [] ( \A k \in Kinds :
            LET r == KindRan(k)
            IN  ( /\ Len(r) = 3
                  /\ r[1].f = StartOf(k)
                  /\ r[2].f = StopOf(k)
                  /\ r[3].f = StartOf(k) )
                => ( /\ r[2].bin = r[1].bin
                     /\ r[3].bin # r[1].bin
                     /\ BinOf(k) = r[3].bin
                     /\ SinkOf(k) = r[3].bin
                     /\ BinsOf(k) = { [ id |-> r[3].bin, kind |-> k ] }
                     /\ SinksOf(k) = { [ id |-> r[3].bin, kind |-> k ] } ) )

\* Video was started, stopped and started again.
C14_Witness ==
  /\ Len(KindRan("video")) = 3
  /\ KindRan("video")[1].f = "send_video_to_browser"
  /\ KindRan("video")[2].f = "stop_video_to_browser"
  /\ KindRan("video")[3].f = "send_video_to_browser"
  /\ video_bin = 2
  /\ pipe_bins = { [ id |-> 2, kind |-> "video" ] }

\* The source a command text stands for, none for any other text.
CommandTask(str) ==
  CASE str = "RECV VIDEO START TESTPATTERN" ->
         << [ f |-> "send_video_to_browser",
              arg |-> "VIDEO_SOURCE_TEST_PATTERN" ] >>
    [] str = "RECV VIDEO START LOOPBACK" ->
         << [ f |-> "send_video_to_browser",
              arg |-> "VIDEO_SOURCE_LOOPBACK" ] >>
    [] str = "RECV VIDEO STOP" ->
         << [ f |-> "stop_video_to_browser", arg |-> "none" ] >>
    [] str = "RECV AUDIO START" ->
         << [ f |-> "send_audio_to_browser", arg |-> "none" ] >>
    [] str = "RECV AUDIO STOP" ->
         << [ f |-> "stop_audio_to_browser", arg |-> "none" ] >>
    [] OTHER -> << >>

\* C15: data_channel_on_message_string adds exactly the idle source of the
\* command the text is, and none for a text that is no command; it runs no
\* source itself, touches no branch, calls no shutdown and fails nowhere.
C15_CommandDispatch ==
  [][ ( ev'.op = "data_channel_on_message_string" )
      => ( /\ idle' = idle \o CommandTask(ev'.arg)
           /\ ran' = ran
           /\ << video_bin', video_sink', audio_bin', audio_sink' >>
                = << video_bin, video_sink, audio_bin, audio_sink >>
           /\ pipe_bins' = pipe_bins
           /\ req_sinks' = req_sinks
           /\ n_bins' = n_bins
           /\ ev'.cleanups = 0
           /\ loop' = loop
           /\ ws_state' = ws_state
           /\ app_state' = app_state
           /\ ~aborted' ) ]_vars

\* Two commands were received before the loop dispatched anything, and a
\* text that is no command after them.
C15_Witness ==
  /\ ev.op = "data_channel_on_message_string"
  /\ ev.arg = "RECV VIDEO START"
  /\ idle = << [ f |-> "send_video_to_browser",
                 arg |-> "VIDEO_SOURCE_TEST_PATTERN" ],
               [ f |-> "stop_audio_to_browser", arg |-> "none" ] >>

\* C16 (as claimed): every data channel that opened has exactly one ping
\* timeout of its own.
C16_OnePingTaskPerChannel ==
  \A dc \in 1..n_dc : opens[dc] > 0 => timers[dc] = 1

\* C17 (as claimed): the numbers of the PING messages sent are 0, 1, 2, ...
\* in this order, none repeated and none skipped.
C17_PingNumbersCount ==
  \A i \in 1..Len(pings) : pings[i].n = i - 1

\* C18: on-close and on-error of a data channel call cleanup_and_quit_loop
\* without a state: app_state stays, the loop is quit (once), and the
\* websocket is asked to close when it is open, released when it is not,
\* and left alone when it is NULL.
C18_ChannelCloseShutsDown ==
  [][ ( ev'.op \in { "data_channel_on_close", "data_channel_on_error" } )
      => ( /\ ev'.cleanups = 1
           /\ app_state' = app_state
           /\ ~loop'
           /\ quit_calls' = IF loop THEN quit_calls + 1 ELSE quit_calls
           /\ ( ws_conn /\ ws_state = "open" )
                => ( /\ ws_conn'
                     /\ ws_state' = "closing"
                     /\ close_calls' = close_calls + 1 )
           /\ ( ws_conn /\ ws_state # "open" )
                => ( ~ws_conn' /\ close_calls' = close_calls )
           /\ ( ~ws_conn )
                => ( /\ ~ws_conn'
                     /\ ws_state' = ws_state
                     /\ close_calls' = close_calls )
           /\ ~aborted' ) ]_vars

\* A channel closed during the call while the websocket was open.
C18_Witness ==
  /\ ev.op = "data_channel_on_close"
  /\ ev.pre_app = PEER_CALL_STARTED
  /\ app_state = PEER_CALL_STARTED
  /\ ev.pre_conn
  /\ ws_conn
  /\ ws_state = "closing"
  /\ close_calls = 1
  /\ quit_calls = 1
  /\ ~loop
  /\ opens[1] > 0

\* C19 (as claimed): every ice message of the server, in any state, makes
\* exactly one add-ice-candidate request of webrtcbin and leaves app_state
\* and making_offer as they are.
C19_IceAlwaysForwarded ==
  [][ ( ev'.op = "on_server_message" /\ ev'.arg = "ice" )
      => ( /\ ice_added' = ice_added + 1
           /\ app_state' = app_state
           /\ making_offer' = making_offer ) ]_vars

\* C20 (as claimed): every candidate webrtcbin produces while app_state is
\* at least PEER_CALL_NEGOTIATING is sent: exactly one ice message is added
\* to what was sent, and it goes out on an open connection.
C20_IcePerCandidate ==
  [][ ( ev'.op = "send_ice_candidate_message"
        /\ app_state >= PEER_CALL_NEGOTIATING )
      => ( /\ Len(log') = Len(log) + 1
           /\ SubSeq(log', 1, Len(log)) = log
           /\ log'[Len(log')].kind = "ice"
           /\ log'[Len(log')].conn = "open" ) ]_vars

\* The texts of the server that are no well-formed application payload:
\* not JSON, no object or an object without "sdp" and "ice" ("junk"), and
\* an "sdp" object that lacks "type" or lacks "sdp".
Malformed == { "junk", "sdp-notype", "sdp-notext" }

\* C21 (as claimed): a malformed payload is dropped as one message:
\* cleanup_and_quit_loop is not called, the loop and the connection stay as
\* they are, app_state does not become an *Error value and the program
\* goes on.
C21_MalformedIsDropped ==
  [][ ( ev'.op = "on_server_message" /\ ev'.arg \in Malformed )
      => ( /\ ev'.cleanups = 0
           /\ loop' = loop
           /\ ws_state' = ws_state
           /\ ( app_state \notin ErrorStates => app_state' \notin ErrorStates )
           /\ ~aborted' ) ]_vars

\* C22: exactly one of peer_id and our_id is set (here our_id).  When HELLO
\* is accepted in SERVER_REGISTERING with our_id set, nothing is sent and
\* the program waits in SERVER_REGISTERED; and in every state HELLO can be
\* accepted in, the branch taken with a peer id set and our_id NULL sends
\* exactly one SESSION on the open connection and moves to PEER_CONNECTING,
\* without calling cleanup_and_quit_loop.
C22_IdentityDecidesWhoCalls ==
  /\ [] ( ( peer_id = NULL ) # ( our_id = NULL ) )
  /\ [][ ( /\ ev'.op = "on_server_message"
            /\ ev'.arg = "HELLO"
            /\ app_state = SERVER_REGISTERING
            /\ our_id # NULL )
          => ( /\ app_state' = SERVER_REGISTERED
               /\ log' = log
               /\ ev'.cleanups = 0
               /\ loop' = loop ) ]_vars
  /\ [] ( app_state = SERVER_REGISTERING =>
            LET r == hello_accepted(Cur, NULL, "peer")
            IN  /\ r.app_state = PEER_CONNECTING
                /\ Len(r.log) = Len(log) + 1
                /\ SubSeq(r.log, 1, Len(log)) = log
                /\ r.log[Len(r.log)].kind = "SESSION"
                /\ r.log[Len(r.log)].conn = "open"
                /\ r.cleanups = 0
                /\ r.loop = loop )

\* The server accepted the registration of our_id: no SESSION was sent.
C22_Witness ==
  /\ ev.op = "on_server_message"
  /\ ev.arg = "HELLO"
  /\ ev.pre_app = SERVER_REGISTERING
  /\ app_state = SERVER_REGISTERED
  /\ our_id # NULL
  /\ \A i \in 1..Len(log) : log[i].kind # "SESSION"
  /\ \E i \in 1..Len(log) : log[i].kind = "HELLO"

\* C23 (as claimed): when main () returns with app_state an *Error value,
\* the exit indication of the process is not zero.
C23_ExitCodeTellsError ==
  ( exited /\ ev.op = "main_return" /\ app_state \in ErrorStates )
    => ev.arg # "0"

\* C24: what on_server_message reads of the text a send function wrote is
\* what was written: the candidate and the index add-ice-candidate is
\* given are the candidate and the index of the signal, for every string
\* and index drawn, the indices from 2^31 on included (the gint local in
\* between is negative for them); the type and the text of a description
\* are the ones sent.
C24_WireRoundTrip ==
  wire.stage = "read" => wire.out = wire.msg

\* The largest index went through with a candidate that needs escaping.
C24_Witness ==
  /\ wire.stage = "read"
  /\ wire.msg.kind = "ice"
  /\ wire.msg.idx = << 65535, 65535 >>
  /\ wire.msg.str = << "\\", "n" >>
  /\ wire.text.str = << "\\", "\\", "n" >>
  /\ wire.text.idx.digits = << 4, 2, 9, 4, 9, 6, 7, 2, 9, 5 >>
  /\ wire.out = wire.msg

OfferPending == \E i \in 1..Len(pcq) : pcq[i].t = "create-offer"

\* C25 (as claimed): in every state in which no create-offer request is
\* outstanding, making_offer is FALSE.
C25_MakingOfferOnlyWhilePending ==
  ( ~aborted /\ making_offer ) => OfferPending

\* The calls of a teardown that read the direction dir, for kind k.
Teardown(k, dir) ==
  << [ f |-> "gst_element_send_event", v |-> "eos" ],
     [ f |-> "g_object_get", v |-> dir ],
     [ f |-> "g_object_set", v |-> demoted(dir) ],
     [ f |-> "gst_element_set_state", v |-> "GST_STATE_NULL" ],
     [ f |-> "gst_pad_unlink", v |-> "none" ],
     [ f |-> "gst_element_release_request_pad", v |-> "none" ],
     [ f |-> "gst_bin_remove", v |-> "none" ],
     [ f |-> "clear", v |-> k ] >>

\* C26: a stop task of a kind whose branch is attached makes these calls,
\* each once and in this order: end-of-stream is sent to the branch, the
\* direction of the transceiver is read and set to recvonly if it was
\* sendrecv and to inactive otherwise, the branch is set to the null state
\* and unlinked from webrtcbin, the sink pad is released, the branch is
\* removed from the pipeline and the handles of the kind are cleared.
C26_TeardownOrder ==
  [][ \A k \in Kinds :
        ( ev'.op = StopOf(k) /\ BinOf(k) # 0 /\ SinkOf(k) # 0 )
        => ( /\ \E dir \in Directions : ev'.calls = Teardown(k, dir)
             /\ ev'.calls[3].v = IF ev'.calls[2].v = "sendrecv"
                                   THEN "recvonly" ELSE "inactive"
             /\ BinOf(k)' = 0
             /\ SinkOf(k)' = 0 ) ]_vars

\* The audio branch was started and then stopped while its transceiver was
\* recvonly: the direction was set to inactive.
C26_Witness ==
  /\ ev.op = "stop_audio_to_browser"
  /\ Len(KindRan("audio")) = 2
  /\ KindRan("audio")[1].f = "send_audio_to_browser"
  /\ KindRan("audio")[2].bin = KindRan("audio")[1].bin
  /\ Len(ev.calls) = 8
  /\ ev.calls[2].v = "recvonly"
  /\ ev.calls[3].v = "inactive"
  /\ audio_bin = 0
  /\ pipe_bins = { }

IdleFunctions ==
  { "dump_graph", "send_video_to_browser", "stop_video_to_browser",
    "send_audio_to_browser", "stop_audio_to_browser" }

\* C27 (as claimed): every task a command scheduled is executed: a task
\* that waits to be dispatched is never left behind by a loop that was
\* quit or a process that ended.
C27_EveryTaskRuns ==
  idle # << >> => ( loop /\ ~aborted )

\* C27 (amended): a command only appends its task to the sources that
\* wait; the loop, while it runs, dispatches the source that has waited
\* longest, which removes it, so that tasks run in the order of their
\* commands and none runs twice; nothing else adds, removes or runs a
\* task.
C27_TasksOnceInOrder ==
  [][ /\ ( ev'.op = "data_channel_on_message_string" )
         => ( ran' = ran /\ idle' = idle \o CommandTask(ev'.arg) )
      /\ ( ev'.op \in IdleFunctions )
         => ( /\ loop
              /\ idle # << >>
              /\ idle' = Tail(idle)
              /\ Len(ran') = Len(ran) + 1
              /\ SubSeq(ran', 1, Len(ran)) = ran
              /\ ran'[Len(ran')].f = Head(idle).f
              /\ ran'[Len(ran')].arg = Head(idle).arg
              /\ ev'.op = Head(idle).f )
      /\ ( ev'.op \notin IdleFunctions \cup { "data_channel_on_message_string" } )
         => ( ran' = ran /\ idle' = idle ) ]_vars

\* Three commands were received and their tasks ran, each once, in the
\* order of the commands.
C27_Witness ==
  /\ n_cmds = 3
  /\ idle = << >>
  /\ Len(ran) = 4
  /\ ran[2].f = "send_audio_to_browser"
  /\ ran[3].f = "send_video_to_browser"
  /\ ran[3].arg = "VIDEO_SOURCE_LOOPBACK"
  /\ ran[4].f = "stop_audio_to_browser"
  /\ ev.op = "stop_audio_to_browser"
  /\ audio_bin = 0
  /\ video_bin = 2

\* C28 (as claimed): whenever on_offer_created or on_answer_created runs,
\* app_state is PEER_CALL_NEGOTIATING, so that the assertion at its start
\* holds.
C28_AssertionsHold ==
  [][ ( ev'.op \in { "on_offer_created", "on_answer_created" } )
      => ( app_state = PEER_CALL_NEGOTIATING /\ ~aborted' ) ]_vars

\* C29 (as claimed): an sdp or ice message of the server is handled, and a
\* create-offer, create-answer or signalling-state read is made, only when
\* the peer connection exists (webrtc1 is not NULL).
C29_PeerConnectionExists ==
  [][ ( \/ /\ ev'.op = "on_server_message"
            /\ ev'.arg \in { "sdp-offer", "sdp-answer", "ice" }
         \/ ev'.op \in { "on_negotiation_needed", "on_offer_created",
                          "on_answer_created", "on_offer_set" } )
      => webrtc1 # 0 ]_vars

\* C30 (as claimed): at most one pipeline and peer connection is created
\* in a session.
C30_OnePipelinePerSession ==
  n_created <= 1

\* C31 (as claimed): once cleanup_and_quit_loop has run (its first call
\* quits the loop), no text is transmitted on the websocket any more; and
\* soup_websocket_connection_send_text is never called with a connection
\* that was cleared (ws_conn NULL), whatever app_state is.
C31_NoSendAfterShutdown ==
  /\ [][ ( quit_calls >= 1 )
         => ( \A i \in (Len(log) + 1)..Len(log') : log'[i].conn # "open" )
     ]_vars
  /\ [] ( \A i \in 1..Len(log) : log[i].conn # "null" )

====
